---- MODULE Spec2Model ----
(***************************************************************************)
(* A model of the gpu-watch refresh loops:                                 *)
(*   "lite"    src/gpu_watch_lite.py     (pynvml + rich.Live)              *)
(*   "windows" src/gpu_watch_windows.py  (nvidia-smi subprocess + Live)    *)
(*   "textual" src/gpu_watch.py          (pynvml + Textual widgets)        *)
(* The backend (pynvml, nvidia-smi) and the UI toolkits are outside the    *)
(* repository: every backend call may return or raise, and its result is   *)
(* drawn from a small set.                                                 *)
(***************************************************************************)
EXTENDS Integers, Sequences, FiniteSets, TLC

\* ------------------------------------------------------------------ bounds

\* history_size is 60 in the source (gpu_watch_lite.py:26,
\* gpu_watch_windows.py:22, max_points=60 in gpu_watch.py:70-72).  The
\* model is parametric in it and is explored at a small capacity.
history_size == 2

\* generate_layout calls (rich variants) / clock ticks (textual) explored;
\* a cycle beyond the bound does not start.
MaxCycles == 2

\* Manual refresh requests explored in one session.
MaxRefresh == 1

\* Appends explored by the history-series specification.
MaxAppends == 4

\* ------------------------------------------------------------ input sets

Variants == {"lite", "windows", "textual"}

\* Device counts the backend may report at discovery.
GpuCounts == {0, 1, 2}

\* Core metrics one device may report in one poll (utilization %, memory
\* used / total, temperature).
Readings ==
  { [util |-> 10, used |-> 1, total |-> 5,  temp |-> 40,
     power |-> 30,  limit |-> 100, gclk |-> 300,  mclk |-> 400,  fan |-> 20],
    [util |-> 95, used |-> 9, total |-> 10, temp |-> 85,
     power |-> 90, limit |-> 100, gclk |-> 1500, mclk |-> 7000, fan |-> 90] }

\* What the pynvml calls of one get_gpu_info / update_gpu_info do: core is
\* FALSE when the handle, name, utilization, memory or temperature call
\* raises; power (nvmlDeviceGetPowerUsage), limit
\* (nvmlDeviceGetPowerManagementLimit), gclk and mclk (nvmlDeviceGetClockInfo
\* of the graphics and of the memory clock) and fan (nvmlDeviceGetFanSpeed)
\* are FALSE when that best-effort call raises.
BestEffortCalls == {"power", "limit", "gclk", "mclk", "fan"}

NvmlResponses ==
  [core : BOOLEAN, r : Readings, power : BOOLEAN, limit : BOOLEAN,
   gclk : BOOLEAN, mclk : BOOLEAN, fan : BOOLEAN]

\* The responses explored inside the refresh loop: a failed poll, a full
\* sample, and a sample whose power query raised.
LoopResponses ==
  { x \in NvmlResponses :
      /\ x.limit /\ x.gclk /\ x.mclk /\ x.fan
      /\ x.r.util = 95
      /\ (~x.core => x.power) }

\* ------------------------------------------------------------- variables

VARIABLES
  variant,        \* which program runs
  pc,             \* position of the main thread / event loop
  nvml_inited,    \* nvmlInit has returned successfully
  init_calls,     \* nvmlInit calls made
  shutdown_calls, \* nvmlShutdown calls made
  early_calls,    \* backend calls made while nvml_inited was FALSE
  discovery,      \* "pending", "ok" or "failed"
  gpu_count,      \* self.gpu_count / number of GPUCard widgets
  gpu_history, mem_history, temp_history,  \* device index -> deque
  dev,            \* loop variable i of generate_layout
  sys_panel,      \* panel built by create_system_info in this cycle
  gpu_panels,     \* panels built so far in this cycle
  proc_panel,     \* panel built by create_process_table in this cycle
  frame,          \* last renderable handed to Live / shown by the widgets
  live,           \* the Live display has been entered
  cycles,         \* generate_layout calls completed / clock ticks
  polls,          \* device polls issued
  diag,           \* diagnostic messages surfaced at start-up
  ui_shown,       \* a dashboard renderable (panel, layout, widget) is shown
  exit_code,      \* -1 while the process runs
  pending_exc,    \* exception in flight through run()'s finally
  signalled,      \* a stop signal has been delivered
  aborted_polls,  \* polls cut short by the signal
  polls_after_sig,\* 1 once a poll has started after the signal
  handles,        \* textual: GPUCard.handle resolved, per card
  next_fire,      \* textual: due time of each card's interval timer
  refreshes,      \* textual: manual refresh requests served
  shutdown_raised,\* the nvmlShutdown call raised
  failed,         \* devices whose poll failed in the cycle being built
                  \* (-1: the whole CLI poll)
  shown_failed,   \* the same for the frame on screen
  ever_failed,    \* some poll has failed in this session
  appended,       \* history specification: the samples appended so far
  arg,            \* rendering specification: the arguments of the call
  ret             \* rendering specification: what the call returned

vars == << variant, pc, nvml_inited, init_calls, shutdown_calls, early_calls,
           discovery, gpu_count, gpu_history, mem_history, temp_history, dev,
           sys_panel, gpu_panels, proc_panel, frame, live, cycles, polls,
           diag, ui_shown, exit_code, pending_exc, signalled, aborted_polls,
           polls_after_sig, handles, next_fire, refreshes, shutdown_raised,
           failed, shown_failed, ever_failed, appended, arg, ret >>

hist == << gpu_history, mem_history, temp_history >>
sigv == << signalled, aborted_polls, polls_after_sig >>
tvars == << handles, next_fire, refreshes >>
cyc == << dev, sys_panel, gpu_panels, proc_panel >>
nvml == << nvml_inited, init_calls, shutdown_calls, early_calls,
          shutdown_raised >>
ghost == << failed, shown_failed, ever_failed >>
fixed == << variant, appended, arg, ret >>

\* No rendering call is being looked at.
NoCall == [fn |-> "none"]

\* ------------------------------------------------------------ the deque

\* A list in place of the bounded deque: nothing is ever discarded.
DequeAppendUnbounded(d, v, maxlen) == Append(d, v)

\* collections.deque(maxlen=n).append(v): the oldest item is discarded
\* once the deque is full.
DequeAppend(d, v, maxlen) ==
  IF maxlen = 0 THEN d
  ELSE IF Len(d) >= maxlen THEN Append(SubSeq(d, Len(d) - maxlen + 2, Len(d)), v)
  ELSE Append(d, v)

\* A series created empty: deque(maxlen=n) without the initial zeros.
EmptyDeque(n) == << >>

\* deque([0] * n, maxlen=n)
ZeroDeque(n) == [k \in 1..n |-> 0]

\* range(gpu_count + 1): a series for a device that was not counted.
NewHistoryExtra(n) == [i \in 0..n |-> ZeroDeque(history_size)]

\* for i in range(gpu_count): self.*_history[i] = deque([0]*history_size, ...)
NewHistory(n) == [i \in 0..(n - 1) |-> ZeroDeque(history_size)]

\* ------------------------------------------------- native-binding poll

None == [ok |-> FALSE]

\* The dict get_gpu_info returns (None when a core call raises, or when
\* the division by mem_info.total raises).
NvmlInfo(x) ==
  IF ~x.core \/ x.r.total = 0 THEN None
  ELSE [ok |-> TRUE,
        gpu_util |-> x.r.util,
        mem_percent |-> (x.r.used * 100) \div x.r.total,
        temp |-> x.r.temp,
        power |-> IF x.power /\ x.limit THEN x.r.power ELSE 0,
        power_limit |-> IF x.power /\ x.limit THEN x.r.limit ELSE 0,
        gpu_clock |-> IF x.gclk /\ x.mclk THEN x.r.gclk ELSE 0,
        mem_clock |-> IF x.gclk /\ x.mclk THEN x.r.mclk ELSE 0,
        fan_speed |-> IF x.fan THEN x.r.fan ELSE 0]

\* The sample recorded in the series of every device, not of device i only.
RecordSampleAll(h, i, v) ==
  [j \in DOMAIN h |-> DequeAppend(h[j], v, history_size)]

\* A second writer of the same deque: the sample is appended twice.
RecordSampleTwice(h, i, v) ==
  [h EXCEPT ![i] = DequeAppend(DequeAppend(@, v, history_size), v, history_size)]

\* "Update history": one append to each of the device's three deques.
RecordSample(h, i, v) == [h EXCEPT ![i] = DequeAppend(@, v, history_size)]

\* The "if info is None" test dropped: a device panel whatever the poll gave.
create_gpu_panel_no_error(i, info) == [kind |-> "gpu", index |-> i]

\* create_gpu_panel: the red error panel for None, the device panel otherwise.
create_gpu_panel(i, info) ==
  IF ~info.ok THEN [kind |-> "error", index |-> i]
  ELSE [kind |-> "gpu", index |-> i]

NoFrame == [kind |-> "none", sys |-> "none", gpus |-> << >>, procs |-> "none"]

\* The Layout generate_layout returns.
Layout(sys, gpus, procs) ==
  [kind |-> "layout", sys |-> sys, gpus |-> gpus, procs |-> procs]

\* A backend call made now is recorded when nvmlInit has not returned yet.
Called(name) == IF nvml_inited THEN early_calls ELSE early_calls \cup {name}

\* A poll starts: a poll issued after a stop signal is noted.
PollStarts ==
  /\ polls' = polls + 1
  /\ polls_after_sig' = IF signalled THEN 1 ELSE polls_after_sig

\* ---------------------------------------------------------------- Init

Init ==
  /\ variant \in Variants
  /\ pc = CASE variant = "lite" -> "init"
            [] variant = "windows" -> "detect"
            [] variant = "textual" -> "app_compose"
  /\ nvml_inited = FALSE /\ init_calls = 0 /\ shutdown_calls = 0
  /\ early_calls = {}
  /\ discovery = "pending"
  /\ gpu_count = 0
  /\ gpu_history = << >> /\ mem_history = << >> /\ temp_history = << >>
  /\ dev = 0
  /\ sys_panel = "none" /\ gpu_panels = << >> /\ proc_panel = "none"
  /\ frame = NoFrame
  /\ live = FALSE
  /\ cycles = 0 /\ polls = 0
  /\ diag = 0
  /\ ui_shown = FALSE
  /\ exit_code = -1
  /\ pending_exc = "none"
  /\ signalled = FALSE /\ aborted_polls = FALSE
  /\ polls_after_sig = 0
  /\ handles = << >> /\ next_fire = << >> /\ refreshes = 0
  /\ shutdown_raised = FALSE
  /\ failed = {} /\ shown_failed = {} /\ ever_failed = FALSE
  /\ appended = << >>
  /\ arg = NoCall /\ ret = NoCall

\* ------------------------------------------------- gpu_watch_lite.py

\* GPUMonitor.__init__: pynvml.nvmlInit(); on an exception the message
\* is printed and exit(1) ends the process.
LiteInit ==
  /\ variant = "lite" /\ pc = "init"
  /\ init_calls' = init_calls + 1
  /\ \E ok \in BOOLEAN :
       IF ok
       THEN /\ nvml_inited' = TRUE
            /\ pc' = "count"
            /\ UNCHANGED << discovery, diag, exit_code >>
       ELSE /\ nvml_inited' = FALSE
            /\ discovery' = "failed"
            /\ diag' = diag + 1
            /\ exit_code' = 1
            /\ pc' = "stopped"
  /\ UNCHANGED << fixed, ghost, shutdown_calls, shutdown_raised, early_calls, gpu_count, hist, cyc,
                  frame, live, cycles, polls, ui_shown, pending_exc, sigv,
                  tvars >>

\* GPUMonitor.__init__: nvmlDeviceGetCount() and the history dicts; main()
\* then calls run(), which enters its try block.
LiteCount ==
  /\ variant = "lite" /\ pc = "count"
  /\ early_calls' = Called("count")
  /\ \/ \E n \in GpuCounts :
          /\ gpu_count' = n
          /\ gpu_history' = NewHistory(n)
          /\ mem_history' = NewHistory(n)
          /\ temp_history' = NewHistory(n)
          /\ discovery' = "ok"
          /\ pc' = "sysinfo"
          /\ UNCHANGED << diag, exit_code >>
     \/ /\ discovery' = "failed"
        /\ diag' = diag + 1
        /\ exit_code' = 1
        /\ pc' = "stopped"
        /\ UNCHANGED << gpu_count, hist >>
  /\ UNCHANGED << fixed, ghost, nvml_inited, init_calls, shutdown_calls, shutdown_raised, cyc, frame,
                  live, cycles, polls, ui_shown, pending_exc, sigv, tvars >>

\* create_system_info: the driver / CUDA version calls; an exception gives
\* the error panel.
LiteSystemInfo ==
  /\ variant = "lite" /\ pc = "sysinfo"
  /\ cycles < MaxCycles
  /\ early_calls' = Called("sysinfo")
  /\ \E ok \in BOOLEAN : sys_panel' = IF ok THEN "system" ELSE "error"
  /\ gpu_panels' = << >>
  /\ failed' = {}
  /\ dev' = 0
  /\ pc' = IF gpu_count = 0 THEN "procs" ELSE "poll"
  /\ UNCHANGED << fixed, shown_failed, ever_failed, nvml_inited, init_calls, shutdown_calls, shutdown_raised, discovery,
                  gpu_count, hist, proc_panel, frame, live, cycles, polls,
                  diag, ui_shown, exit_code, pending_exc, sigv, tvars >>

\* The loop body with a failed poll ending the device loop: the devices
\* after dev get no poll and no panel in this cycle.
LitePollEndsLoop(x) ==
  LET info == NvmlInfo(x) IN
  /\ early_calls' = Called("query")
  /\ PollStarts
  /\ IF info.ok
     THEN /\ gpu_history' = RecordSample(gpu_history, dev, info.gpu_util)
          /\ mem_history' = RecordSample(mem_history, dev, info.mem_percent)
          /\ temp_history' = RecordSample(temp_history, dev, info.temp)
     ELSE UNCHANGED hist
  /\ failed' = IF info.ok THEN failed ELSE failed \cup {dev}
  /\ ever_failed' = (ever_failed \/ ~info.ok)
  /\ gpu_panels' = Append(gpu_panels, create_gpu_panel(dev, info))
  /\ dev' = dev + 1
  /\ pc' = IF dev + 1 = gpu_count \/ ~info.ok THEN "procs" ELSE "poll"

\* One pass of the loop body of generate_layout for device dev, with the
\* backend answering x: get_gpu_info(dev), then create_gpu_panel(dev, info).
LitePollWith(x) ==
  LET info == NvmlInfo(x) IN
  /\ early_calls' = Called("query")
  /\ PollStarts
  /\ IF info.ok
     THEN /\ gpu_history' = RecordSample(gpu_history, dev, info.gpu_util)
          /\ mem_history' = RecordSample(mem_history, dev, info.mem_percent)
          /\ temp_history' = RecordSample(temp_history, dev, info.temp)
     ELSE UNCHANGED hist
  /\ failed' = IF info.ok THEN failed ELSE failed \cup {dev}
  /\ ever_failed' = (ever_failed \/ ~info.ok)
  /\ gpu_panels' = Append(gpu_panels, create_gpu_panel(dev, info))
  /\ dev' = dev + 1
  /\ pc' = IF dev + 1 = gpu_count THEN "procs" ELSE "poll"

LitePoll ==
  /\ variant = "lite" /\ pc = "poll"
  /\ \E x \in LoopResponses : LitePollWith(x)
  /\ UNCHANGED << fixed, shown_failed, nvml_inited, init_calls, shutdown_calls, shutdown_raised, discovery,
                  gpu_count, sys_panel, proc_panel, frame, live, cycles, diag,
                  ui_shown, exit_code, pending_exc, signalled, aborted_polls, tvars >>

\* get_processes and create_process_table: a device whose calls raise is
\* skipped; an empty list gives the placeholder row.
LiteProcesses ==
  /\ variant = "lite" /\ pc = "procs"
  /\ early_calls' = Called("processes")
  /\ \E some \in BOOLEAN :
       proc_panel' = IF some /\ gpu_count > 0 THEN "rows" ELSE "placeholder"
  /\ pc' = "compose"
  /\ UNCHANGED << fixed, ghost, nvml_inited, init_calls, shutdown_calls, shutdown_raised, discovery,
                  gpu_count, hist, dev, sys_panel, gpu_panels, frame, live,
                  cycles, polls, diag, ui_shown, exit_code, pending_exc, sigv,
                  tvars >>

\* generate_layout returns the layout; run() hands it to Live(...) the first
\* time and to live.update(...) in the loop, then sleeps.
LiteCompose ==
  /\ variant = "lite" /\ pc = "compose"
  /\ frame' = Layout(sys_panel, gpu_panels, proc_panel)
  /\ live' = TRUE
  /\ shown_failed' = failed
  /\ ui_shown' = TRUE
  /\ cycles' = cycles + 1
  /\ pc' = IF live THEN "sleep" ELSE "sysinfo"
  /\ UNCHANGED << fixed, failed, ever_failed, nvml, discovery, gpu_count, hist, cyc, polls, diag,
                  exit_code, pending_exc, sigv, tvars >>

\* time.sleep(0.5), then the next iteration of while True.
LiteSleep ==
  /\ variant = "lite" /\ pc = "sleep"
  /\ pc' = "sysinfo"
  /\ UNCHANGED << fixed, ghost, nvml, discovery, gpu_count, hist, cyc, frame, live,
                  cycles, polls, diag, ui_shown, exit_code, pending_exc, sigv,
                  tvars >>

\* An exception raised by rich while the layout is rendered: no except
\* clause of run() matches it, so it travels through finally.
LiteRenderRaises ==
  /\ variant = "lite" /\ pc = "compose"
  /\ pending_exc' = "Exception"
  /\ pc' = "finally"
  /\ UNCHANGED << fixed, ghost, nvml, discovery, gpu_count, hist, cyc, frame, live,
                  cycles, polls, diag, ui_shown, exit_code, sigv, tvars >>

\* Ctrl-C while __init__ runs: KeyboardInterrupt is no Exception, so it
\* leaves __init__ and main() uncaught; the interpreter ends with a
\* non-zero status.
LiteInterruptStartup ==
  /\ variant = "lite" /\ pc \in {"init", "count"}
  /\ signalled' = TRUE
  /\ exit_code' = 130
  /\ pc' = "stopped"
  /\ UNCHANGED << fixed, ghost, nvml, discovery, gpu_count, hist, cyc, frame, live,
                  cycles, polls, diag, ui_shown, pending_exc, aborted_polls, polls_after_sig, tvars >>

\* Ctrl-C between two operations of the loop (around create_system_info,
\* the panel construction, the layout, live.update or time.sleep): it
\* reaches except KeyboardInterrupt of run(), which prints "Monitoring
\* stopped."; finally comes next.
LiteInterrupt ==
  /\ variant = "lite" /\ pc \in {"sysinfo", "poll", "procs", "compose", "sleep"}
  /\ signalled' = TRUE
  /\ pc' = "finally"
  /\ UNCHANGED << fixed, ghost, nvml, discovery, gpu_count, hist, cyc, frame, live,
                  cycles, polls, diag, ui_shown, exit_code, pending_exc,
                  aborted_polls, polls_after_sig, tvars >>

\* Ctrl-C while get_gpu_info(dev) is between its handle call and its
\* temperature call: "except Exception" does not catch it, the poll is
\* cut short (no append, no panel) and except KeyboardInterrupt of run()
\* prints its line; finally comes next.
LiteInterruptInPoll ==
  /\ variant = "lite" /\ pc = "poll"
  /\ early_calls' = Called("query")
  /\ PollStarts
  /\ signalled' = TRUE
  /\ aborted_polls' = TRUE
  /\ pc' = "finally"
  /\ UNCHANGED << fixed, ghost, nvml_inited, init_calls, shutdown_calls, shutdown_raised, discovery,
                  gpu_count, hist, cyc, frame, live, cycles, diag, ui_shown,
                  exit_code, pending_exc, tvars >>

\* A pynvml call of get_gpu_info(dev) that does not return: the calls
\* take no timeout and nothing around them sets one, so run() waits in
\* the call; a Ctrl-C is only seen once the call has returned.
LitePollBlocks ==
  /\ variant = "lite" /\ pc = "poll"
  /\ early_calls' = Called("query")
  /\ PollStarts
  /\ pc' = "blocked"
  /\ UNCHANGED << fixed, ghost, nvml_inited, init_calls, shutdown_calls, shutdown_raised, discovery,
                  gpu_count, hist, cyc, frame, live, cycles, diag, ui_shown,
                  exit_code, pending_exc, signalled, aborted_polls, tvars >>

\* Ctrl-C while get_gpu_info(dev) is inside one of its bare "except:"
\* blocks (power, clocks, fan): the handler catches KeyboardInterrupt,
\* zeroes the fields and the poll goes on as if nothing happened.
LiteInterruptSwallowedInPoll ==
  /\ variant = "lite" /\ pc = "poll"
  /\ \E x \in NvmlResponses :
       /\ x.core /\ x.r.util = 10
       /\ Cardinality({g \in BestEffortCalls : ~x[g]}) = 1
       /\ LitePollWith(x)
  /\ signalled' = TRUE
  /\ UNCHANGED << fixed, shown_failed, nvml_inited, init_calls, shutdown_calls, shutdown_raised, discovery,
                  gpu_count, sys_panel, proc_panel, frame, live, cycles, diag,
                  ui_shown, exit_code, pending_exc, aborted_polls, tvars >>

\* Ctrl-C inside the per-device try of get_processes: the bare "except:
\* continue" (or the one around the process name) catches it.
LiteInterruptSwallowedInProcesses ==
  /\ variant = "lite" /\ pc = "procs" /\ gpu_count > 0
  /\ early_calls' = Called("processes")
  /\ \E some \in BOOLEAN : proc_panel' = IF some THEN "rows" ELSE "placeholder"
  /\ signalled' = TRUE
  /\ pc' = "compose"
  /\ UNCHANGED << fixed, ghost, nvml_inited, init_calls, shutdown_calls, shutdown_raised, discovery,
                  gpu_count, hist, dev, sys_panel, gpu_panels, frame, live,
                  cycles, polls, diag, ui_shown, exit_code, pending_exc,
                  aborted_polls, polls_after_sig, tvars >>

\* finally: pynvml.nvmlShutdown(), not guarded: when it raises, the error
\* leaves run() and main().  An exception in flight is re-raised after it.
LiteFinally ==
  /\ variant = "lite" /\ pc = "finally"
  /\ shutdown_calls' = shutdown_calls + 1
  /\ \E ok \in BOOLEAN :
       IF ok
       THEN /\ shutdown_raised' = FALSE
            /\ exit_code' = IF pending_exc = "none" THEN 0 ELSE 1
            /\ UNCHANGED pending_exc
       ELSE /\ shutdown_raised' = TRUE
            /\ pending_exc' = "NVMLError"
            /\ exit_code' = 1
  /\ pc' = "stopped"
  /\ UNCHANGED << fixed, ghost, nvml_inited, init_calls, early_calls, discovery, gpu_count, hist,
                  cyc, frame, live, cycles, polls, diag, ui_shown, sigv, tvars >>

\* ---------------------------------------------- gpu_watch_windows.py

\* What subprocess.run of the count query gives detect_gpus: run is FALSE
\* when the call raises (nvidia-smi missing, timeout), rc is the return
\* code, lines the integers printed on stdout, one per line.
DetectOutputs ==
  { [run |-> FALSE, rc |-> 1, lines |-> << >>],
    [run |-> TRUE,  rc |-> 1, lines |-> << >>],
    [run |-> TRUE,  rc |-> 0, lines |-> << 0 >>],
    [run |-> TRUE,  rc |-> 0, lines |-> << 1 >>],
    [run |-> TRUE,  rc |-> 0, lines |-> << 2 >>],
    [run |-> TRUE,  rc |-> 0, lines |-> << 2, 2 >>] }

\* int(result.stdout.strip()) raises ValueError unless stdout is one integer.
CountParses(out) == Len(out.lines) = 1

\* detect_gpus succeeds: the call returned, returncode == 0, int() parsed.
DetectOk(out) == out.run /\ out.rc = 0 /\ CountParses(out)

\* One line of the 13-field query: nf is the number of comma-separated
\* parts, index the reported device index, r the numeric fields.
GpuLine(nf, index, r) == [nf |-> nf, index |-> index, r |-> r]

\* The field count get_gpu_info requires of a line.
QueryFields == 13

\* Lines explored for the device at position k of the output.
LineChoices(k) ==
  { GpuLine(QueryFields, k, r) : r \in Readings }
    \cup { GpuLine(QueryFields - 1, k, CHOOSE r \in Readings : r.util = 10) }

\* A well-formed line for a device index that discovery did not count.
StrangerLine(n) == GpuLine(QueryFields, n, CHOOSE r \in Readings : r.util = 10)

\* Outputs of the 13-field query explored in the loop for n devices: the
\* lines come in any order, may repeat a device and may name a device
\* beyond the discovered count.
WinLoopOutputs(n) ==
  { [run |-> FALSE, rc |-> 1, lines |-> << >>],
    [run |-> TRUE,  rc |-> 1, lines |-> << >>] }
    \cup { [run |-> TRUE, rc |-> 0, lines |-> [k \in 1..n |-> f[k]]] :
             f \in [1..n -> UNION { LineChoices(j) : j \in 0..(n - 1) }
                              \cup { StrangerLine(n) }] }

\* The dict built from one well-formed line (lines 118-136).
WinInfo(line) ==
  [ok |-> TRUE,
   index |-> line.index,
   gpu_util |-> line.r.util,
   mem_percent |-> IF line.r.total > 0
                   THEN (line.r.used * 100) \div line.r.total ELSE 0,
   temp |-> line.r.temp,
   power |-> line.r.power,
   power_limit |-> line.r.limit,
   gpu_clock |-> line.r.gclk,
   mem_clock |-> line.r.mclk,
   fan_speed |-> line.r.fan]

\* The for loop of get_gpu_info from line k on.  st carries the three
\* history dicts and the gpus list; ok becomes FALSE when a line raises
\* something the inner handler does not catch (KeyError for an index with
\* no history), which makes get_gpu_info return None.
RECURSIVE WinParse(_, _, _)
WinParse(lines, k, st) ==
  IF k > Len(lines) THEN st
  ELSE LET line == lines[k]
           info == WinInfo(line)
       IN IF line.nf < QueryFields THEN WinParse(lines, k + 1, st)
          ELSE IF line.index \notin DOMAIN st.gh THEN [st EXCEPT !.ok = FALSE]
          ELSE WinParse(lines, k + 1,
                 [st EXCEPT
                    !.gh = RecordSample(@, line.index, info.gpu_util),
                    !.mh = RecordSample(@, line.index, info.mem_percent),
                    !.th = RecordSample(@, line.index, info.temp),
                    !.gpus = Append(@, info)])

\* A line with too few parts treated as fatal: the poll returns None.
get_gpu_info_strict(out, gh, mh, th) ==
  LET st0 == [gh |-> gh, mh |-> mh, th |-> th, gpus |-> << >>, ok |-> TRUE] IN
  IF ~out.run \/ out.rc # 0 THEN [st0 EXCEPT !.ok = FALSE]
  ELSE IF \E k \in DOMAIN out.lines : out.lines[k].nf < QueryFields
       THEN [st0 EXCEPT !.ok = FALSE]
       ELSE WinParse(out.lines, 1, st0)

\* get_gpu_info of the CLI backend: None (ok = FALSE) when the call raises
\* or returns a non-zero code, else the parsed list; the histories are
\* updated line by line on the way.
get_gpu_info(out, gh, mh, th) ==
  LET st0 == [gh |-> gh, mh |-> mh, th |-> th, gpus |-> << >>, ok |-> TRUE] IN
  IF ~out.run \/ out.rc # 0 THEN [st0 EXCEPT !.ok = FALSE]
  ELSE WinParse(out.lines, 1, st0)

\* "if not gpus": None and the empty list both count as a failed poll.
NotGpus(res) == ~res.ok \/ res.gpus = << >>

\* gpu_panels = [self.create_gpu_panel(gpu) for gpu in gpus]
WinPanels(res) ==
  [k \in 1..Len(res.gpus) |-> create_gpu_panel(res.gpus[k].index, res.gpus[k])]

\* The error panel generate_layout returns when "not gpus".
ErrorFrame == [kind |-> "error", sys |-> "none", gpus |-> << >>, procs |-> "none"]

\* detect_gpus: the count query, the history dicts; on failure the error
\* (with its hint line) is printed and exit(1) ends the process.
WinDetect ==
  /\ variant = "windows" /\ pc = "detect"
  /\ \E out \in DetectOutputs :
       IF DetectOk(out)
       THEN /\ gpu_count' = out.lines[1]
            /\ gpu_history' = NewHistory(out.lines[1])
            /\ mem_history' = NewHistory(out.lines[1])
            /\ temp_history' = NewHistory(out.lines[1])
            /\ discovery' = "ok"
            /\ pc' = "banner"
            /\ UNCHANGED << diag, exit_code >>
       ELSE /\ discovery' = "failed"
            /\ diag' = diag + 1
            /\ exit_code' = 1
            /\ pc' = "stopped"
            /\ UNCHANGED << gpu_count, hist >>
  /\ UNCHANGED << fixed, ghost, nvml, cyc, frame, live, cycles, polls, ui_shown,
                  pending_exc, sigv, tvars >>

\* run(): the banner panel and time.sleep(1), before the try block.
WinBanner ==
  /\ variant = "windows" /\ pc = "banner"
  /\ ui_shown' = TRUE
  /\ pc' = "sysinfo"
  /\ UNCHANGED << fixed, ghost, nvml, discovery, gpu_count, hist, cyc, frame, live,
                  cycles, polls, diag, exit_code, pending_exc, sigv, tvars >>

\* Ctrl-C in detect_gpus or during the banner sleep: except
\* KeyboardInterrupt of main() prints "Exiting..." and main returns.
WinInterruptStartup ==
  /\ variant = "windows" /\ pc \in {"detect", "banner"}
  /\ signalled' = TRUE
  /\ exit_code' = 0
  /\ pc' = "stopped"
  /\ UNCHANGED << fixed, ghost, nvml, discovery, gpu_count, hist, cyc, frame, live,
                  cycles, polls, diag, ui_shown, pending_exc, aborted_polls, polls_after_sig, tvars >>

\* create_system_info: the driver query; an exception gives the error panel.
WinSystemInfo ==
  /\ variant = "windows" /\ pc = "sysinfo"
  /\ cycles < MaxCycles
  /\ \E ok \in BOOLEAN : sys_panel' = IF ok THEN "system" ELSE "error"
  /\ gpu_panels' = << >>
  /\ failed' = {}
  /\ pc' = "poll"
  /\ UNCHANGED << fixed, shown_failed, ever_failed, nvml, discovery, gpu_count, hist, dev, proc_panel,
                  frame, live, cycles, polls, diag, ui_shown, exit_code,
                  pending_exc, sigv, tvars >>

\* generate_layout: gpus = self.get_gpu_info(); "if not gpus" the error
\* panel is returned at once, else one panel per parsed device.
WinPoll ==
  /\ variant = "windows" /\ pc = "poll"
  /\ PollStarts
  /\ \E out \in WinLoopOutputs(gpu_count) :
       LET res == get_gpu_info(out, gpu_history, mem_history, temp_history) IN
       /\ gpu_history' = res.gh
       /\ mem_history' = res.mh
       /\ temp_history' = res.th
       /\ IF NotGpus(res)
          THEN /\ gpu_panels' = << >>
               /\ failed' = {-1}
               /\ ever_failed' = TRUE
               /\ pc' = "compose"
          ELSE /\ gpu_panels' = WinPanels(res)
               /\ UNCHANGED << failed, ever_failed >>
               /\ pc' = "procs"
  /\ UNCHANGED << fixed, shown_failed, nvml, discovery, gpu_count, dev, sys_panel,
                  proc_panel, frame, live, cycles, diag, ui_shown, exit_code,
                  pending_exc, signalled, aborted_polls, tvars >>

\* get_processes and create_process_table: any exception gives the empty
\* list, which gives the placeholder row.
WinProcesses ==
  /\ variant = "windows" /\ pc = "procs"
  /\ \E some \in BOOLEAN : proc_panel' = IF some THEN "rows" ELSE "placeholder"
  /\ pc' = "compose"
  /\ UNCHANGED << fixed, ghost, nvml, discovery, gpu_count, hist, dev, sys_panel,
                  gpu_panels, frame, live, cycles, polls, diag, ui_shown,
                  exit_code, pending_exc, sigv, tvars >>

\* generate_layout returns (the layout, or the error panel when no device
\* was parsed); Live(...) the first time, live.update(...) in the loop.
WinCompose ==
  /\ variant = "windows" /\ pc = "compose"
  /\ frame' = IF gpu_panels = << >> THEN ErrorFrame
              ELSE Layout(sys_panel, gpu_panels, proc_panel)
  /\ live' = TRUE
  /\ shown_failed' = failed
  /\ cycles' = cycles + 1
  /\ pc' = IF live THEN "sleep" ELSE "sysinfo"
  /\ UNCHANGED << fixed, failed, ever_failed, nvml, discovery, gpu_count, hist, cyc, polls, diag,
                  ui_shown, exit_code, pending_exc, sigv, tvars >>

\* time.sleep(0.5), then the next iteration of while True.
WinSleep ==
  /\ variant = "windows" /\ pc = "sleep"
  /\ pc' = "sysinfo"
  /\ UNCHANGED << fixed, ghost, nvml, discovery, gpu_count, hist, cyc, frame, live,
                  cycles, polls, diag, ui_shown, exit_code, pending_exc, sigv,
                  tvars >>

\* Ctrl-C between two operations of the loop: except KeyboardInterrupt of
\* run() prints "Monitoring stopped.".
WinInterrupt ==
  /\ variant = "windows" /\ pc \in {"sysinfo", "poll", "procs", "compose", "sleep"}
  /\ signalled' = TRUE
  /\ pc' = "handler"
  /\ UNCHANGED << fixed, ghost, nvml, discovery, gpu_count, hist, cyc, frame, live,
                  cycles, polls, diag, ui_shown, exit_code, pending_exc,
                  aborted_polls, polls_after_sig, tvars >>

\* Ctrl-C while get_gpu_info waits for nvidia-smi: "except Exception" does
\* not catch it and the poll is cut short.
WinInterruptInPoll ==
  /\ variant = "windows" /\ pc = "poll"
  /\ PollStarts
  /\ signalled' = TRUE
  /\ aborted_polls' = TRUE
  /\ pc' = "handler"
  /\ UNCHANGED << fixed, ghost, nvml, discovery, gpu_count, hist, cyc, frame, live,
                  cycles, diag, ui_shown, exit_code, pending_exc, tvars >>

\* An except clause placed inside the while loop: the loop goes on.
WinHandlerResumes ==
  /\ variant = "windows" /\ pc = "handler"
  /\ pc' = "sysinfo"
  /\ UNCHANGED << fixed, ghost, nvml, discovery, gpu_count, hist, cyc, frame,
                  live, cycles, polls, diag, ui_shown, exit_code, pending_exc,
                  sigv, tvars >>

\* run() returns after its except clause, main() returns: exit status 0.
\* No backend shutdown exists in this variant.
WinHandler ==
  /\ variant = "windows" /\ pc = "handler"
  /\ exit_code' = 0
  /\ pc' = "stopped"
  /\ UNCHANGED << fixed, ghost, nvml, discovery, gpu_count, hist, cyc, frame, live,
                  cycles, polls, diag, ui_shown, pending_exc, sigv, tvars >>

WinNext ==
  \/ WinDetect \/ WinBanner \/ WinInterruptStartup \/ WinSystemInfo \/ WinPoll
  \/ WinProcesses \/ WinCompose \/ WinSleep \/ WinInterrupt
  \/ WinInterruptInPoll \/ WinHandler

\* ---------------------------------------------------- gpu_watch.py

\* set_interval(0.5, self.update_gpu_info): the clock of the model counts
\* in units of that interval.
CardPeriod == 1

\* The widgets compose() yields when the device count was read: one
\* GPUCard per device (nothing shown in it yet), SystemInfo, ProcessTable.
Widgets(n) ==
  [kind |-> "widgets", sys |-> "none",
   gpus |-> [k \in 1..n |-> [kind |-> "blank", index |-> k - 1]],
   procs |-> "none"]

\* The Static compose() yields when the device count raises.
ErrorStatic == [kind |-> "static", sys |-> "none", gpus |-> << >>, procs |-> "none"]

\* GPUCard.update_gpu_info of card i with the backend answering x: nothing
\* when the handle is None; else the sample is added to the three
\* sparklines and the panel is shown, or the error panel on an exception.
update_gpu_info(i, x, st) ==
  LET info == NvmlInfo(x) IN
  IF ~handles[i] THEN st
  ELSE IF info.ok
  THEN [gh |-> RecordSample(st.gh, i, info.gpu_util),
        mh |-> RecordSample(st.mh, i, info.mem_percent),
        th |-> RecordSample(st.th, i, info.temp),
        views |-> [st.views EXCEPT ![i + 1] = create_gpu_panel(i, info)],
        polls |-> st.polls + 1,
        sf |-> st.sf \ {i},
        ef |-> st.ef]
  ELSE [st EXCEPT !.views[i + 1] = create_gpu_panel(i, info),
                  !.polls = @ + 1,
                  !.sf = @ \cup {i},
                  !.ef = TRUE]

\* "for widget in self.query(GPUCard): widget.update_gpu_info()" from card
\* i on, card k answered by xs[k].
RECURSIVE UpdateCards(_, _, _)
UpdateCards(i, xs, st) ==
  IF i >= gpu_count THEN st
  ELSE UpdateCards(i + 1, xs, update_gpu_info(i, xs[i], st))

CardState ==
  [gh |-> gpu_history, mh |-> mem_history, th |-> temp_history,
   views |-> frame.gpus, polls |-> polls, sf |-> shown_failed,
   ef |-> ever_failed]

\* GPUWatchApp.compose: nvmlDeviceGetCount(), then GPUCard(i) for every
\* device (each resolves its handle, None when that raises), SystemInfo
\* and ProcessTable; a Static with the error when the count raises.
\* Textual composes the app before it sends Mount, so nvmlInit has not
\* been called yet.
TCompose ==
  /\ variant = "textual" /\ pc = "app_compose"
  /\ \/ \E n \in GpuCounts : \E h \in [0..(n - 1) -> BOOLEAN] :
          /\ gpu_count' = n
          /\ handles' = h
          /\ gpu_history' = NewHistory(n)
          /\ mem_history' = NewHistory(n)
          /\ temp_history' = NewHistory(n)
          /\ early_calls' = IF n > 0 THEN Called("count") \cup Called("handle")
                            ELSE Called("count")
          /\ frame' = Widgets(n)
          /\ discovery' = "ok"
          /\ UNCHANGED diag
     \/ /\ early_calls' = Called("count")
        /\ frame' = ErrorStatic
        /\ discovery' = "failed"
        /\ diag' = diag + 1
        /\ UNCHANGED << gpu_count, handles, hist >>
  /\ pc' = "app_mount"
  /\ UNCHANGED << fixed, ghost, nvml_inited, init_calls, shutdown_calls, shutdown_raised, cyc, live,
                  cycles, polls, ui_shown, exit_code, pending_exc, sigv,
                  next_fire, refreshes >>

\* GPUWatchApp.on_mount: nvmlInit(); on an exception self.exit(message=...)
\* (return code 0).  When it returns the app runs: the composed widgets
\* are on screen and every GPUCard.on_mount has set its interval timer.
TMount ==
  /\ variant = "textual" /\ pc = "app_mount"
  /\ init_calls' = init_calls + 1
  /\ \E ok \in BOOLEAN :
       IF ok
       THEN /\ nvml_inited' = TRUE
            /\ ui_shown' = TRUE
            /\ next_fire' = [i \in 0..(gpu_count - 1) |-> cycles + CardPeriod]
            /\ pc' = "app"
            /\ UNCHANGED << discovery, diag >>
       ELSE /\ discovery' = "failed"
            /\ diag' = diag + 1
            /\ pc' = "unmount"
            /\ UNCHANGED << nvml_inited, ui_shown, next_fire >>
  /\ UNCHANGED << fixed, ghost, shutdown_calls, shutdown_raised, early_calls, gpu_count, hist, cyc,
                  frame, live, cycles, polls, exit_code, pending_exc, sigv,
                  handles, refreshes >>

\* The interval timer of card i is due: update_gpu_info runs and the
\* timer is re-armed one period later.
TTimer(i) ==
  /\ variant = "textual" /\ pc = "app"
  /\ i \in DOMAIN next_fire /\ next_fire[i] = cycles
  /\ \E x \in LoopResponses :
       LET st == update_gpu_info(i, x, CardState) IN
       /\ gpu_history' = st.gh
       /\ mem_history' = st.mh
       /\ temp_history' = st.th
       /\ frame' = [frame EXCEPT !.gpus = st.views]
       /\ polls' = st.polls
       /\ shown_failed' = st.sf
       /\ ever_failed' = st.ef
       /\ early_calls' = IF handles[i] THEN Called("query") ELSE early_calls
  /\ next_fire' = [next_fire EXCEPT ![i] = cycles + CardPeriod]
  /\ UNCHANGED << fixed, failed, pc, nvml_inited, init_calls, shutdown_calls, shutdown_raised,
                  discovery, gpu_count, cyc, live, cycles, diag, ui_shown,
                  exit_code, pending_exc, sigv, handles, refreshes >>

\* Time passes to the next multiple of the interval; no timer is overdue.
TTick ==
  /\ variant = "textual" /\ pc = "app"
  /\ cycles < MaxCycles
  /\ \A i \in DOMAIN next_fire : next_fire[i] > cycles
  /\ cycles' = cycles + 1
  /\ UNCHANGED << fixed, ghost, pc, nvml, discovery, gpu_count, hist, cyc, frame,
                  live, polls, diag, ui_shown, exit_code, pending_exc, sigv,
                  tvars >>

\* A refresh that restarts the interval timers of the cards.
TimersRestarted == [i \in DOMAIN next_fire |-> cycles + CardPeriod]

\* action_refresh calls the update methods directly: the timers set by
\* set_interval keep their due times.
TimersAfterRefresh == next_fire

\* GPUWatchApp.action_refresh (key "r"): update_gpu_info of every GPUCard,
\* update_processes of the ProcessTable, update_system_info of SystemInfo;
\* each catches its own exceptions.  No timer is touched.
action_refresh ==
  /\ variant = "textual" /\ pc = "app"
  /\ refreshes < MaxRefresh
  /\ \E xs \in [0..(gpu_count - 1) -> LoopResponses] :
       LET st == UpdateCards(0, xs, CardState) IN
       /\ gpu_history' = st.gh
       /\ mem_history' = st.mh
       /\ temp_history' = st.th
       /\ polls' = st.polls
       /\ shown_failed' = st.sf
       /\ ever_failed' = st.ef
       /\ \E procs \in {"rows", "placeholder", "error"} :
          \E sys \in {"system", "error"} :
            frame' = IF frame.kind = "widgets"
                     THEN [frame EXCEPT !.gpus = st.views, !.procs = procs,
                                        !.sys = sys]
                     ELSE frame
       /\ early_calls' = IF frame.kind = "widgets" THEN Called("query")
                         ELSE early_calls
  /\ refreshes' = refreshes + 1
  /\ next_fire' = TimersAfterRefresh
  /\ UNCHANGED << fixed, failed, pc, nvml_inited, init_calls, shutdown_calls,
                  shutdown_raised, discovery, gpu_count, cyc, live, cycles,
                  diag, ui_shown, exit_code, pending_exc, sigv, handles >>

\* Key "q": action_quit ends the app between two callbacks.
TQuit ==
  /\ variant = "textual" /\ pc = "app"
  /\ signalled' = TRUE
  /\ pc' = "unmount"
  /\ UNCHANGED << fixed, ghost, nvml, discovery, gpu_count, hist, cyc, frame, live,
                  cycles, polls, diag, ui_shown, exit_code, pending_exc,
                  aborted_polls, polls_after_sig, tvars >>

\* GPUWatchApp.on_unmount: nvmlShutdown() inside try / except: pass; then
\* app.run() and main() return.
TUnmount ==
  /\ variant = "textual" /\ pc = "unmount"
  /\ shutdown_calls' = shutdown_calls + 1
  /\ \E ok \in BOOLEAN : shutdown_raised' = ~ok
  /\ exit_code' = 0
  /\ pc' = "stopped"
  /\ UNCHANGED << fixed, ghost, nvml_inited, init_calls, early_calls, discovery, gpu_count, hist,
                  cyc, frame, live, cycles, polls, diag, ui_shown, pending_exc,
                  sigv, tvars >>

TextualNext ==
  \/ TCompose \/ TMount \/ (\E i \in DOMAIN next_fire : TTimer(i)) \/ TTick
  \/ action_refresh \/ TQuit \/ TUnmount

LiteNext ==
  \/ LiteInit \/ LiteCount \/ LiteSystemInfo \/ LitePoll \/ LiteProcesses
  \/ LiteCompose \/ LiteSleep \/ LiteRenderRaises \/ LiteInterruptStartup
  \/ LiteInterrupt \/ LiteInterruptInPoll \/ LitePollBlocks
  \/ LiteInterruptSwallowedInPoll
  \/ LiteInterruptSwallowedInProcesses \/ LiteFinally

Next == LiteNext \/ WinNext \/ TextualNext

Spec == Init /\ [][Next]_vars

\* The state of the refresh loop, read off the position of the program:
\* Initializing up to the entry of run()'s try block (the app's mount),
\* Running inside the loop, Draining in the except / finally clauses of
\* run() (on_unmount), Stopped when the process has ended.
Phase ==
  CASE pc \in {"init", "count", "detect", "banner", "app_compose", "app_mount"}
         -> "Initializing"
    [] pc \in {"sysinfo", "poll", "procs", "compose", "sleep", "app",
               "blocked"}
         -> "Running"
    [] pc \in {"handler", "finally", "unmount"} -> "Draining"
    [] pc = "stopped" -> "Stopped"

\* ------------------------------------------- the history series alone

\* The samples one recorded poll may append to (utilization, memory %,
\* temperature).
HistorySamples ==
  { [util |-> 0,  memp |-> 0,  temp |-> 0],
    [util |-> 10, memp |-> 20, temp |-> 40],
    [util |-> 95, memp |-> 90, temp |-> 85] }

\* One device discovered: its three series as __init__ / detect_gpus /
\* GPUCard.__init__ create them.
InitHistory ==
  /\ variant = "history"
  /\ pc = "series"
  /\ nvml_inited = FALSE /\ init_calls = 0 /\ shutdown_calls = 0
  /\ early_calls = {}
  /\ discovery = "ok"
  /\ gpu_count = 1
  /\ gpu_history = NewHistory(1)
  /\ mem_history = NewHistory(1)
  /\ temp_history = NewHistory(1)
  /\ dev = 0
  /\ sys_panel = "none" /\ gpu_panels = << >> /\ proc_panel = "none"
  /\ frame = NoFrame
  /\ live = FALSE
  /\ cycles = 0 /\ polls = 0
  /\ diag = 0
  /\ ui_shown = FALSE
  /\ exit_code = -1
  /\ pending_exc = "none"
  /\ signalled = FALSE /\ aborted_polls = FALSE
  /\ polls_after_sig = 0
  /\ handles = << >> /\ next_fire = << >> /\ refreshes = 0
  /\ shutdown_raised = FALSE
  /\ failed = {} /\ shown_failed = {} /\ ever_failed = FALSE
  /\ appended = << >>
  /\ arg = NoCall /\ ret = NoCall

\* The "Update history" lines of a poll: one append to each series.
HistoryAppend ==
  /\ variant = "history"
  /\ Len(appended) < MaxAppends
  /\ \E v \in HistorySamples :
       /\ gpu_history' = RecordSample(gpu_history, 0, v.util)
       /\ mem_history' = RecordSample(mem_history, 0, v.memp)
       /\ temp_history' = RecordSample(temp_history, 0, v.temp)
       /\ appended' = Append(appended, v)
  /\ UNCHANGED << variant, arg, ret, pc, nvml, discovery, gpu_count, cyc, frame,
                  live, cycles, polls, diag, ui_shown, exit_code, pending_exc,
                  sigv, tvars, ghost >>

NextHistory == HistoryAppend

SpecHistory == InitHistory /\ [][NextHistory]_vars

\* ---------------------------------------------- the rendering functions

\* Percent values handed to the bars and to the temperature row.
MaxPercent == 100

\* Samples a series may hold when its sparkline is drawn.
SparkSamples == {0, 1, 60, 70, 100}

\* Cells of a bar of the rich variants (make_bar(..., width=40)).
BarWidth == 40

\* Cells of a bar of the Textual card ("█" * int(v / 2) + "░" * (50 - ...)).
CardBarWidth == 50
CardBarStep == 2

\* The last index of sparkline_chars / self.chars (" ▁▂▃▄▅▆▇█").
TopLevel == 8

Max(S) == CHOOSE m \in S : \A v \in S : v <= m
Min2(a, b) == IF a < b THEN a ELSE b
Max2(a, b) == IF a > b THEN a ELSE b
Range(f) == { f[k] : k \in DOMAIN f }

\* The upper threshold taken inclusively.
LoadColorInclusive(v) ==
  IF v >= 80 THEN "red" ELSE IF v > 50 THEN "yellow" ELSE "green"

\* "red" if v > 80, "yellow" if v > 50, else "green": make_bar, the glyphs
\* of make_sparkline / Sparkline.render, gpu_color, mem_color, power_color.
LoadColor(v) ==
  IF v > 80 THEN "red" ELSE IF v > 50 THEN "yellow" ELSE "green"

\* temp_color of create_gpu_panel / update_gpu_info.
temp_color(v) ==
  IF v > 80 THEN "red" ELSE IF v > 65 THEN "yellow" ELSE "green"

\* A bar that loses a cell for every odd value.
make_bar_short(value, width) ==
  LET filled == Max2(0, (value * width) \div 100 - (value % 2)) IN
  [fn |-> "bar", filled |-> filled, empty |-> Max2(0, width - filled),
   color |-> LoadColor(value)]

\* make_bar: filled = int(value / 100 * width) cells "█", then
\* (width - filled) cells "░" (none when that is negative), one colour.
make_bar(value, width) ==
  LET filled == (value * width) \div 100 IN
  [fn |-> "bar", filled |-> filled, empty |-> Max2(0, width - filled),
   color |-> LoadColor(value)]

\* The bars update_gpu_info of the Textual card builds inline.
card_bar(value) ==
  LET filled == value \div CardBarStep IN
  [fn |-> "bar", filled |-> filled, empty |-> Max2(0, CardBarWidth - filled),
   color |-> LoadColor(value)]

\* The temperature row: the value in the colour of its tier.
temp_row(value) == [fn |-> "temp", text |-> value, color |-> temp_color(value)]

\* One glyph of a sparkline: chars[level] in a colour.
Glyph(level, style) == [flat |-> FALSE, level |-> level, style |-> style]

\* The dim "─" of a series without data.
FlatGlyph == [flat |-> TRUE, level |-> 0, style |-> "dim"]

\* What a call that ends in ZeroDivisionError leaves: no sparkline.
Raised == << Glyph(-1, "ZeroDivisionError") >>

\* The loop of make_sparkline / Sparkline.render over the values: norm =
\* val / max_val, idx = min(int(norm * 8), 8), the glyph chars[idx] in the
\* colour of the value.  The division raises when max_val is 0.
LevelGlyphs(values, max_val) ==
  IF max_val = 0 THEN Raised
  ELSE [k \in DOMAIN values |->
          Glyph(Min2((values[k] * TopLevel) \div max_val, TopLevel),
                LoadColor(values[k]))]

\* The test for an all-zero series left out.
make_sparkline_unguarded(values) ==
  IF values = << >> THEN << >>
  ELSE LevelGlyphs(values, Max(Range(values)))

\* Levels on a fixed 0..100 scale in place of the series maximum.
make_sparkline_fixed(values) ==
  IF values = << >> \/ Max(Range(values)) = 0
  THEN [k \in DOMAIN values |-> FlatGlyph]
  ELSE LevelGlyphs(values, 100)

\* make_sparkline of the rich variants: "─" * len(values), dim, when the
\* series is empty or its maximum is 0; else one glyph per value,
\* normalised against max(values).
make_sparkline(values) ==
  IF values = << >> \/ Max(Range(values)) = 0
  THEN [k \in DOMAIN values |-> FlatGlyph]
  ELSE LevelGlyphs(values, Max(Range(values)))

\* Sparkline.render of the Textual widget: "" for an empty series; max_val
\* is 1 when the maximum is 0, so every glyph of an all-zero series is
\* chars[0], the blank.
Sparkline_render(values) ==
  IF values = << >> THEN << >>
  ELSE LET top == Max(Range(values)) IN
       LevelGlyphs(values, IF top > 0 THEN top ELSE 1)

\* ------------------------------------- the rendering functions, called

\* The programs whose rendering code is called.
Renderers == {"lite", "windows", "textual"}

InitRender ==
  /\ variant = "render"
  /\ pc = "render"
  /\ nvml_inited = FALSE /\ init_calls = 0 /\ shutdown_calls = 0
  /\ early_calls = {}
  /\ discovery = "ok"
  /\ gpu_count = 0
  /\ gpu_history = << >> /\ mem_history = << >> /\ temp_history = << >>
  /\ dev = 0
  /\ sys_panel = "none" /\ gpu_panels = << >> /\ proc_panel = "none"
  /\ frame = NoFrame
  /\ live = FALSE
  /\ cycles = 0 /\ polls = 0
  /\ diag = 0
  /\ ui_shown = FALSE
  /\ exit_code = -1
  /\ pending_exc = "none"
  /\ signalled = FALSE /\ aborted_polls = FALSE
  /\ polls_after_sig = 0
  /\ handles = << >> /\ next_fire = << >> /\ refreshes = 0
  /\ shutdown_raised = FALSE
  /\ failed = {} /\ shown_failed = {} /\ ever_failed = FALSE
  /\ appended = << >>
  /\ arg = NoCall /\ ret = NoCall

\* Everything but the call looked at.
RenderFrame ==
  UNCHANGED << variant, appended, pc, nvml, discovery, gpu_count, hist, cyc,
               frame, live, cycles, polls, diag, ui_shown, exit_code,
               pending_exc, sigv, tvars, ghost >>

\* No call is being looked at: the next one may be any.
Idle == arg = NoCall

\* The result has been used; the next call is independent of this one.
RenderReturn ==
  /\ variant = "render"
  /\ ~Idle
  /\ arg' = NoCall /\ ret' = NoCall
  /\ RenderFrame

\* A utilization, memory or power bar is drawn for a value: make_bar in
\* the rich variants, the inline bar in the Textual card.  The same bar
\* is drawn again, for another value, on the next cycle.
RenderBar ==
  /\ variant = "render"
  /\ Idle \/ arg.fn = "bar"
  /\ \E who \in Renderers : \E metric \in {"util", "memp", "power"} :
     \E v \in 0..MaxPercent :
       /\ arg.fn = "bar" => (who = arg.who /\ metric = arg.metric)
       /\ arg' = [fn |-> "bar", who |-> who, metric |-> metric, value |-> v]
       /\ ret' = IF who = "textual" THEN card_bar(v) ELSE make_bar(v, BarWidth)
  /\ RenderFrame

\* The temperature row of a device panel is drawn.
RenderTemp ==
  /\ variant = "render"
  /\ Idle
  /\ \E who \in Renderers : \E v \in 0..MaxPercent :
       /\ arg' = [fn |-> "temp", who |-> who, metric |-> "temp", value |-> v]
       /\ ret' = temp_row(v)
  /\ RenderFrame

\* The sparkline of one of the three series of a device is drawn.
RenderSparkline ==
  /\ variant = "render"
  /\ Idle
  /\ \E who \in Renderers : \E metric \in {"util", "memp", "temp"} :
     \E values \in [1..history_size -> SparkSamples] :
       /\ arg' = [fn |-> "sparkline", who |-> who, metric |-> metric,
                  values |-> values]
       /\ ret' = [fn |-> "sparkline",
                  glyphs |-> IF who = "textual" THEN Sparkline_render(values)
                             ELSE make_sparkline(values)]
  /\ RenderFrame


\* ------------------------------------------------------ the process table

\* Processes one device may report in one query.
MaxProcs == 2

\* The fields of a line of the compute-apps query.
ProcFields == 4

\* Devices whose processes are listed.
ProcDevices == 1..2

\* One compute process as pynvml reports it: named is FALSE when
\* nvmlSystemGetProcessName raises, sized is FALSE when usedGpuMemory is
\* None (the driver does not report per-process memory).
Proc(pid, named, sized) == [pid |-> pid, named |-> named, sized |-> sized]

ProcChoices == { Proc(11, TRUE, TRUE), Proc(22, FALSE, TRUE), Proc(33, TRUE, FALSE) }

\* What the process query of one device gives: ok is FALSE when
\* nvmlDeviceGetHandleByIndex or nvmlDeviceGetComputeRunningProcesses
\* raises.
ProcReplies ==
  { [ok |-> FALSE, procs |-> << >>] }
    \cup { [ok |-> TRUE, procs |-> ps] :
             ps \in UNION { [1..n -> ProcChoices] : n \in 0..MaxProcs } }

\* What the compute-apps query of nvidia-smi gives: one line per process.
ProcLine(pid) == [nf |-> ProcFields, pid |-> pid]

ProcOutputs ==
  { [run |-> FALSE, rc |-> 1, lines |-> << >>],
    [run |-> TRUE,  rc |-> 1, lines |-> << >>] }
    \cup { [run |-> TRUE, rc |-> 0, lines |-> ls] :
             ls \in UNION { [1..n -> { ProcLine(11), ProcLine(22) }] :
                            n \in 0..MaxProcs } }

\* The row of one process, and the row shown when there is none.
ProcessRow(gpu, pid, name) ==
  [placeholder |-> FALSE, gpu |-> gpu, pid |-> pid, name |-> name]

PlaceholderRow ==
  [placeholder |-> TRUE, gpu |-> -1, pid |-> 0, name |-> "No active GPU processes"]

\* The processes of a device handled before the loop over them is left:
\* "proc.usedGpuMemory / 1024**2" raises TypeError for None, which the
\* handler of the device loop ("except: continue") catches.
Handled(procs) ==
  LET bad == { k \in DOMAIN procs : ~procs[k].sized }
      stop == IF bad = {} THEN Len(procs) + 1
              ELSE CHOOSE k \in bad : \A j \in bad : k <= j
  IN SubSeq(procs, 1, stop - 1)

\* The rows (dicts in the rich variant) one device contributes.
DeviceRows(gpu, reply) ==
  IF ~reply.ok THEN << >>
  ELSE LET ps == Handled(reply.procs) IN
       [k \in DOMAIN ps |->
          ProcessRow(gpu, ps[k].pid, IF ps[k].named THEN "name" ELSE "Unknown")]

\* The loop "for i in range(self.gpu_count)" from device i on.
RECURSIVE AllRows(_, _)
AllRows(replies, i) ==
  IF i > Len(replies) THEN << >>
  ELSE DeviceRows(i - 1, replies[i]) \o AllRows(replies, i + 1)

\* GPUMonitor.get_processes: the dicts of the processes handled.
get_processes(replies) == AllRows(replies, 1)

\* create_process_table: the placeholder row for an empty list, else one
\* row per process, in list order.
create_process_table(processes) ==
  IF processes = << >> THEN << PlaceholderRow >> ELSE processes

\* WindowsGPUMonitor.get_processes: [] when the call raises, fails or
\* prints nothing; else one dict per line with at least 4 parts.
RECURSIVE LineRows(_, _)
LineRows(lines, k) ==
  IF k > Len(lines) THEN << >>
  ELSE (IF lines[k].nf >= ProcFields
        THEN << ProcessRow(-1, lines[k].pid, "name") >> ELSE << >>)
       \o LineRows(lines, k + 1)

win_get_processes(output) ==
  IF ~output.run \/ output.rc # 0 THEN << >> ELSE LineRows(output.lines, 1)

\* ProcessTable.update_processes: has_processes becomes True as soon as
\* the loop over the processes of a device is entered, a row is added
\* once the process was handled, and the placeholder row is added only
\* when has_processes is still False.
update_processes(replies) ==
  LET has_processes ==
        \E i \in DOMAIN replies : replies[i].ok /\ replies[i].procs # << >>
  IN IF has_processes THEN AllRows(replies, 1) ELSE << PlaceholderRow >>

\* The processes the backend returned, in the order it returned them.
RECURSIVE Returned(_, _)
Returned(replies, i) ==
  IF i > Len(replies) THEN << >>
  ELSE (IF replies[i].ok THEN replies[i].procs ELSE << >>)
       \o Returned(replies, i + 1)

\* The process table is built from what the backend reports.
RenderProcesses ==
  /\ variant = "render"
  /\ Idle
  /\ \/ \E who \in {"lite", "textual"} : \E n \in ProcDevices :
        \E replies \in [1..n -> ProcReplies] :
          /\ arg' = [fn |-> "proctable", who |-> who,
                     supplied |-> Returned(replies, 1)]
          /\ ret' = [fn |-> "proctable",
                     rows |-> IF who = "lite"
                              THEN create_process_table(get_processes(replies))
                              ELSE update_processes(replies)]
     \/ \E output \in ProcOutputs :
          /\ arg' = [fn |-> "proctable", who |-> "windows",
                     supplied |-> output.lines]
          /\ ret' = [fn |-> "proctable",
                     rows |-> create_process_table(win_get_processes(output))]
  /\ RenderFrame

\* ------------------------------------------- fields of one CLI line

\* The two strings nvidia-smi prints in place of a number.
NA == "[N/A]"
UnknownError == "[Unknown Error]"
Sentinels == {NA, UnknownError}

\* The text of one comma-separated part: a number, or a sentinel.
Num(v) == [text |-> "num", val |-> v]
Sentinel(s) == [text |-> s, val |-> 0]

\* The numeric parts of a line after index and name, in query order
\* (parts[2] .. parts[12]).
PartNames ==
  << "util", "mem_util", "used", "total", "temp", "power", "limit",
     "max_limit", "gclk", "mclk", "fan" >>

\* The values of the two queried fields a reading does not carry.
OtherParts == [mem_util |-> 5, max_limit |-> 120]

\* A line whose parts are the numbers of r, except that part f (if any)
\* is the sentinel s.
Parts(r, f, s) ==
  [p \in Range(PartNames) |->
     IF p = f THEN Sentinel(s) ELSE Num((r @@ OtherParts)[p])]

\* float(text) / int(text): ValueError (ok = FALSE) unless text is a number.
ParseNumber(tok) == [ok |-> tok.text = "num", val |-> tok.val]

\* "float(parts[i]) if parts[i] != '[N/A]' else 0"
FieldValue(tok) ==
  IF tok.text # NA THEN ParseNumber(tok) ELSE [ok |-> TRUE, val |-> 0]

\* "float(parts[12]) if parts[12] != '[N/A]' and parts[12] !=
\* '[Unknown Error]' else 0"
FanValue(tok) ==
  IF tok.text # NA /\ tok.text # UnknownError
  THEN ParseNumber(tok) ELSE [ok |-> TRUE, val |-> 0]

\* power_limit: parts[8], and parts[9] when that gave 0 (lines 114-116).
PowerLimitValue(parts) ==
  LET first == FieldValue(parts["limit"]) IN
  IF first.ok /\ first.val = 0 THEN FieldValue(parts["max_limit"]) ELSE first

\* The try block of one line with 13 parts (lines 113-147): the dict, or
\* None when a conversion raises ValueError, which the handler reports
\* before it continues with the next line.
ParseFields(parts) ==
  LET pl == PowerLimitValue(parts)
      val == [p \in Range(PartNames) \ {"limit", "max_limit", "fan"} |->
                FieldValue(parts[p])]
      fan == FanValue(parts["fan"])
  IN IF pl.ok /\ fan.ok /\ \A p \in DOMAIN val : val[p].ok
     THEN [ok |-> TRUE,
           gpu_util |-> val["util"].val,
           mem_util |-> val["mem_util"].val,
           mem_used |-> val["used"].val,
           mem_total |-> val["total"].val,
           temp |-> val["temp"].val,
           power |-> val["power"].val,
           power_limit |-> pl.val,
           gpu_clock |-> val["gclk"].val,
           mem_clock |-> val["mclk"].val,
           fan_speed |-> fan.val]
     ELSE None

\* get_gpu_info on an output of one line: the list it returns.
RenderParse ==
  /\ variant = "render"
  /\ Idle
  /\ \E r \in Readings : \E f \in Range(PartNames) \cup {"none"} :
       \E s \in Sentinels :
         LET info == ParseFields(Parts(r, f, s)) IN
         /\ arg' = [fn |-> "parse", r |-> r @@ OtherParts, field |-> f,
                    sentinel |-> IF f = "none" THEN "none" ELSE s]
         /\ ret' = [fn |-> "parse",
                    gpus |-> IF info.ok THEN << info >> ELSE << >>]
  /\ RenderFrame

\* ------------------------------------------------------- the power row

\* Power draw and power limit (W) a snapshot may carry: a limit of 0 is
\* what the fallbacks leave, and the draw may exceed the limit.  The
\* values are chosen so that power / power_limit * 100 is a whole number.
PowerDraws == {0, 30, 100, 150}
PowerLimits == {0, 50, 100}

\* No bar.
NoBar == [fn |-> "bar", filled |-> 0, empty |-> 0, color |-> "none"]

\* power_percent = (power / power_limit * 100), computed by the callers
\* only when power_limit > 0.
power_percent(power, limit) == (power * 100) \div limit

\* The power row of a device: create_gpu_panel of the rich programs draws
\* the bar only "if power_limit > 0" (the CLI program then shows the draw
\* as text when it is positive); the Textual card always draws a bar, of
\* 0 when the limit is 0.
power_row(who, power, limit) ==
  IF who = "textual"
  THEN [fn |-> "powerrow", drawn |-> TRUE,
        bar |-> card_bar(IF limit > 0 THEN power_percent(power, limit) ELSE 0),
        text |-> FALSE]
  ELSE IF limit > 0
  THEN [fn |-> "powerrow", drawn |-> TRUE,
        bar |-> make_bar(power_percent(power, limit), BarWidth),
        text |-> FALSE]
  ELSE [fn |-> "powerrow", drawn |-> FALSE, bar |-> NoBar,
        text |-> (who = "windows" /\ power > 0)]

\* The power row of a device panel is drawn from a snapshot.
RenderPowerRow ==
  /\ variant = "render"
  /\ Idle
  /\ \E who \in Renderers : \E power \in PowerDraws : \E limit \in PowerLimits :
       /\ arg' = [fn |-> "powerrow", who |-> who, power |-> power,
                  limit |-> limit]
       /\ ret' = power_row(who, power, limit)
  /\ RenderFrame

\* ------------------------------------------- one device, poll to panel

\* Readings of a device that reports no memory total, no power limit, or
\* neither.
EdgeReadings ==
  { [r EXCEPT !.used = IF z.mem THEN 0 ELSE @,
              !.total = IF z.mem THEN 0 ELSE @,
              !.limit = IF z.lim THEN 0 ELSE @] :
      r \in { q \in Readings : q.util = 10 },
      z \in { y \in [mem : BOOLEAN, lim : BOOLEAN] : y.mem \/ y.lim } }

\* The snapshot of device 0 when every backend call returns: the dict of
\* get_gpu_info / the locals of update_gpu_info for the native binding,
\* the dict parsed from the device's line for the CLI.
Snapshot(who, r) ==
  IF who = "windows" THEN WinInfo(GpuLine(QueryFields, 0, r))
  ELSE NvmlInfo([core |-> TRUE, r |-> r, power |-> TRUE, limit |-> TRUE,
                 gclk |-> TRUE, mclk |-> TRUE, fan |-> TRUE])

\* Device 0 is polled and its panel is built from the snapshot.
RenderPanel ==
  /\ variant = "render"
  /\ Idle
  /\ \E who \in Renderers : \E r \in Readings \cup EdgeReadings :
       LET info == Snapshot(who, r) IN
       /\ arg' = [fn |-> "panel", who |-> who, r |-> r]
       /\ ret' = [fn |-> "panel", info |-> info,
                  panel |-> create_gpu_panel(0, info),
                  power |-> IF info.ok
                            THEN power_row(who, info.power, info.power_limit)
                            ELSE [fn |-> "powerrow", drawn |-> FALSE,
                                  bar |-> NoBar, text |-> FALSE]]
  /\ RenderFrame

\* One poll of generate_layout in the CLI program, right after
\* detect_gpus found n devices: get_gpu_info on the output, then the
\* "if not gpus" test and the panels.
RenderWinPoll ==
  /\ variant = "render"
  /\ Idle
  /\ \E n \in {1, 2} : \E out \in WinLoopOutputs(n) :
       LET res == get_gpu_info(out, NewHistory(n), NewHistory(n),
                               NewHistory(n)) IN
       /\ arg' = [fn |-> "winpoll", n |-> n, out |-> out]
       /\ ret' = [fn |-> "winpoll", res |-> res,
                  panels |-> IF NotGpus(res) THEN << >> ELSE WinPanels(res),
                  error |-> NotGpus(res)]
  /\ RenderFrame

\* One call of get_gpu_info / update_gpu_info: the backend answers each of
\* its calls or raises, the snapshot is what the method leaves.
RenderPoll ==
  /\ variant = "render"
  /\ Idle
  /\ \E who \in {"lite", "textual"} : \E x \in NvmlResponses :
       /\ arg' = [fn |-> "poll", who |-> who, x |-> x]
       /\ ret' = [fn |-> "poll", info |-> NvmlInfo(x)]
  /\ RenderFrame

NextRender ==
  \/ RenderBar \/ RenderTemp \/ RenderSparkline \/ RenderProcesses
  \/ RenderPoll
  \/ RenderParse \/ RenderWinPoll \/ RenderPowerRow \/ RenderPanel
  \/ RenderReturn

SpecRender == InitRender /\ [][NextRender]_vars

\* ================================================================ claims

\* The last n samples appended, oldest first, one metric of each.
LastAppended(n, metric) ==
  [k \in 1..n |-> appended[Len(appended) - n + k][metric]]

\* C1: whatever is appended, no series is ever longer than the capacity,
\* and once more than capacity samples were appended each series is exactly
\* the most recent capacity samples, oldest first.
C1_HistoryBounded ==
  /\ \A i \in DOMAIN gpu_history :
       /\ Len(gpu_history[i]) <= history_size
       /\ Len(mem_history[i]) <= history_size
       /\ Len(temp_history[i]) <= history_size
  /\ Len(appended) > history_size =>
       /\ gpu_history[0] = LastAppended(history_size, "util")
       /\ mem_history[0] = LastAppended(history_size, "memp")
       /\ temp_history[0] = LastAppended(history_size, "temp")

\* C1 witness: more than capacity samples were appended, the evicted one
\* differing from those kept, which differ from each other.
C1_Witness ==
  /\ Len(appended) = history_size + 1
  /\ appended[1].util = 95
  /\ gpu_history[0][1] = 10
  /\ gpu_history[0][history_size] = 0

\* The steps of a cycle other than the stop signal and a rendering error.
LoopStep ==
  \/ LiteSystemInfo \/ LitePoll \/ LiteProcesses \/ LiteCompose \/ LiteSleep
  \/ WinSystemInfo \/ WinPoll \/ WinProcesses \/ WinCompose \/ WinSleep
  \/ TTick \/ (\E i \in DOMAIN next_fire : TTimer(i))

\* C2: the error panels of the frame on screen are exactly those of the
\* polls that failed in the cycle that built it (the whole frame for the
\* CLI poll), so a later cycle whose poll succeeds shows normal output;
\* Running is never left because a device, system-info or process query
\* failed (only on a stop signal or an exception that is no poll failure;
\* a session that never ran ended on a discovery failure), and the next
\* step of the loop can be taken unless the loop waits in a backend call
\* that has not returned.
C2_PollFailureInline ==
  /\ (variant = "lite" /\ frame.kind = "layout") =>
       \A k \in DOMAIN frame.gpus :
         (frame.gpus[k].kind = "error") <=> (frame.gpus[k].index \in shown_failed)
  /\ (variant = "windows" /\ frame.kind # "none") =>
       /\ (frame.kind = "error") <=> (-1 \in shown_failed)
       /\ \A k \in DOMAIN frame.gpus : frame.gpus[k].kind = "gpu"
  /\ (variant = "textual" /\ frame.kind = "widgets") =>
       \A k \in DOMAIN frame.gpus :
         (frame.gpus[k].kind = "error") <=> ((k - 1) \in shown_failed)
  /\ Phase \in {"Draining", "Stopped"} =>
       (signalled \/ pending_exc # "none" \/ discovery = "failed")
  /\ (Phase = "Running" /\ pc # "blocked" /\ cycles < MaxCycles) =>
       ENABLED LoopStep

\* C2 witness: the second frame is on screen with two normal device
\* panels, after a cycle in which a poll failed.
C2_Witness ==
  /\ variant = "lite" /\ pc = "sleep" /\ cycles = 2
  /\ ever_failed /\ shown_failed = {}
  /\ Len(frame.gpus) = 2
  /\ \A k \in DOMAIN frame.gpus : frame.gpus[k].kind = "gpu"

StepAlong(a, b) == Phase = a /\ Phase' = b

\* C3 as stated: every step stays in its state or moves along
\* Initializing -> Running -> Draining -> Stopped, or from Initializing
\* to Stopped on a discovery failure; no step is taken once Stopped.
C3_PhaseChainOnly ==
  [][ /\ pc # "stopped"
      /\ \/ Phase' = Phase
         \/ StepAlong("Initializing", "Running")
         \/ StepAlong("Running", "Draining")
         \/ StepAlong("Draining", "Stopped")
         \/ (StepAlong("Initializing", "Stopped") /\ discovery' = "failed")
    ]_vars

\* C3 amended: as above, and from Initializing the loop also goes to
\* Stopped on a stop signal delivered before the loop is entered, and (in
\* the Textual variant) to Draining when the backend initialization fails;
\* Running is left only to Draining, Draining only to Stopped, and no
\* step (poll, append, render) is taken once Stopped.
C3_PhaseForward ==
  [][ /\ pc # "stopped"
      /\ \/ Phase' = Phase
         \/ StepAlong("Initializing", "Running")
         \/ StepAlong("Running", "Draining")
         \/ StepAlong("Draining", "Stopped")
         \/ (StepAlong("Initializing", "Stopped")
               /\ (discovery' = "failed" \/ signalled'))
         \/ (StepAlong("Initializing", "Draining")
               /\ variant = "textual" /\ discovery' = "failed")
    ]_vars

\* C3 witness: the process has stopped on a stop signal that arrived
\* after a successful discovery and before the first poll.
C3_Witness ==
  /\ pc = "stopped" /\ signalled /\ discovery = "ok" /\ gpu_count = 2
  /\ polls = 0 /\ ~live

\* C4 as stated: once discovery has failed the loop is never Running, no
\* poll is issued, no dashboard UI is shown, and the stopped process has
\* surfaced exactly one diagnostic message.
C4_DiscoveryFailureStops ==
  discovery = "failed" =>
    /\ Phase # "Running"
    /\ polls = 0
    /\ ~ui_shown
    /\ (pc = "stopped" => diag = 1)

\* C5 as stated: the stopped process has exit code 0 when a stop signal
\* ended a session that had discovered devices, and a non-zero exit code
\* when discovery failed or reported zero devices.
C5_ExitCodes ==
  pc = "stopped" =>
    /\ (signalled /\ discovery = "ok" /\ gpu_count > 0
          /\ pending_exc # "Exception") => exit_code = 0
    /\ (discovery = "failed" \/ (discovery = "ok" /\ gpu_count = 0)) =>
         exit_code # 0

\* C6 as stated: a stopped process whose nvmlInit call had returned has
\* made exactly one nvmlShutdown call.
C6_ShutdownOnce ==
  (pc = "stopped" /\ nvml_inited) => shutdown_calls = 1

\* C7 as stated: when the nvmlShutdown call raised, the stopped process
\* has no exception in flight and ended as a graceful stop.
C7_ShutdownErrorSwallowed ==
  (pc = "stopped" /\ shutdown_raised) =>
    (pending_exc = "none" /\ exit_code = 0)

\* C8 as stated: nvmlInit is called at most once, exactly once by the
\* time a native-binding session runs, and no other backend call is made
\* before it has returned.
C8_InitFirst ==
  /\ init_calls <= 1
  /\ (variant \in {"lite", "textual"} /\ Phase = "Running") => init_calls = 1
  /\ early_calls = {}

\* C9 as stated: no poll in flight is cut short by the stop signal, and
\* no poll starts after the signal.
C9_CooperativeStop ==
  /\ ~aborted_polls
  /\ polls_after_sig = 0

\* One sample was appended to series h of card i, the oldest dropped.
OneAppend(h, i) ==
  SubSeq(h[i], 2, Len(h[i])) = SubSeq(h'[i], 1, Len(h'[i]) - 1)

\* C10 as stated: a manual refresh polls and renders every device panel
\* once and leaves the clock and every timer as they were.
C10_RefreshAllPanels ==
  [][ refreshes' = refreshes + 1 =>
        /\ next_fire' = next_fire
        /\ cycles' = cycles
        /\ polls' = polls + gpu_count
        /\ \A k \in DOMAIN frame'.gpus : frame'.gpus[k].kind # "blank"
    ]_vars

\* C10 amended: a manual refresh runs one poll and one render for every
\* device panel whose handle was resolved (one append to each of its
\* series when the poll succeeds, none when it fails), skips the panels
\* whose handle is None, and leaves the clock and every timer as they were.
C10_RefreshResolvedPanels ==
  [][ refreshes' = refreshes + 1 =>
        /\ next_fire' = next_fire
        /\ cycles' = cycles
        /\ polls' = polls + Cardinality({i \in DOMAIN handles : handles[i]})
        /\ \A i \in DOMAIN handles :
             IF handles[i]
             THEN /\ frame'.gpus[i + 1].kind \in {"gpu", "error"}
                  /\ IF frame'.gpus[i + 1].kind = "gpu"
                     THEN /\ OneAppend(gpu_history, i)
                          /\ OneAppend(mem_history, i)
                          /\ OneAppend(temp_history, i)
                     ELSE /\ gpu_history'[i] = gpu_history[i]
                          /\ mem_history'[i] = mem_history[i]
                          /\ temp_history'[i] = temp_history[i]
             ELSE /\ frame'.gpus[i + 1] = frame.gpus[i + 1]
                  /\ gpu_history'[i] = gpu_history[i]
                  /\ mem_history'[i] = mem_history[i]
                  /\ temp_history'[i] = temp_history[i]
    ]_vars

\* C10 witness: a refresh was served before any timer fired, with one
\* card polled and rendered and the card without a handle left blank.
C10_Witness ==
  /\ refreshes = 1 /\ cycles = 0 /\ gpu_count = 2
  /\ handles[0] /\ ~handles[1]
  /\ polls = 1
  /\ frame.gpus[1].kind = "gpu" /\ frame.gpus[2].kind = "blank"
  /\ next_fire = [i \in 0..1 |-> CardPeriod]

\* A series of device i differs after the step.
Touched(i) ==
  \/ gpu_history'[i] # gpu_history[i]
  \/ mem_history'[i] # mem_history[i]
  \/ temp_history'[i] # temp_history[i]

\* C11: the series of a device are mutated only by a step that polls; in
\* the native-binding variants such a step records one sample per series
\* (never two writers of one device), the rich loops record in the poll
\* step of the cycle and render in its later compose step, a Textual
\* callback records and renders its card in one uninterrupted step, and
\* the steps of a rich cycle follow system info -> poll -> processes ->
\* compose, the next cycle starting only after the compose step.
C11_SingleTimeline ==
  [][ /\ \A i \in DOMAIN gpu_history \cap DOMAIN gpu_history' :
           Touched(i) =>
             /\ polls' > polls
             /\ polls' - polls <= Cardinality(DOMAIN gpu_history)
             /\ variant = "lite" =>
                  /\ pc = "poll" /\ dev = i /\ frame' = frame
                  /\ OneAppend(gpu_history, i)
                  /\ OneAppend(mem_history, i)
                  /\ OneAppend(temp_history, i)
             /\ variant = "windows" => (pc = "poll" /\ frame' = frame)
             /\ variant = "textual" =>
                  /\ pc = "app" /\ frame'.gpus[i + 1].kind = "gpu"
                  /\ OneAppend(gpu_history, i)
                  /\ OneAppend(mem_history, i)
                  /\ OneAppend(temp_history, i)
      /\ variant \in {"lite", "windows"} =>
           /\ frame' # frame => pc = "compose"
           /\ pc' = "poll" => pc \in {"sysinfo", "poll"}
           /\ pc' = "procs" => pc \in {"sysinfo", "poll", "procs"}
           /\ pc' = "compose" => pc \in {"poll", "procs"}
           /\ (pc' = "sysinfo" /\ pc # "sysinfo") =>
                pc \in {"count", "banner", "compose", "sleep"}
    ]_vars

\* C11 witness: a manual refresh and a timer callback have both recorded
\* a sample for device 0, one after the other.
C11_Witness ==
  /\ variant = "textual" /\ pc = "app"
  /\ refreshes = 1 /\ cycles = 1 /\ gpu_count = 1 /\ handles[0]
  /\ polls = 2
  /\ next_fire[0] = 2
  /\ gpu_history[0][history_size] = 95
  /\ gpu_history[0][history_size - 1] = 95

\* The devices that have the three series.
Devices(count) == 0..(count - 1)

\* C12: once discovery has succeeded the devices with a utilization, a
\* memory and a temperature series are exactly 0..gpu_count-1, and no
\* later step changes the device count, the set of devices that have
\* series, or the length of a series.
C12_DeviceSetFixed ==
  [][ /\ discovery' = "ok" =>
           /\ DOMAIN gpu_history' = Devices(gpu_count')
           /\ DOMAIN mem_history' = Devices(gpu_count')
           /\ DOMAIN temp_history' = Devices(gpu_count')
      /\ discovery = "ok" =>
           /\ gpu_count' = gpu_count
           /\ DOMAIN gpu_history' = DOMAIN gpu_history
           /\ DOMAIN mem_history' = DOMAIN mem_history
           /\ DOMAIN temp_history' = DOMAIN temp_history
           /\ \A i \in DOMAIN gpu_history :
                /\ Len(gpu_history'[i]) = Len(gpu_history[i])
                /\ Len(mem_history'[i]) = Len(mem_history[i])
                /\ Len(temp_history'[i]) = Len(temp_history[i])
    ]_vars

\* C12 witness: the first CLI poll reported device 0 and then a device
\* index that was never discovered; the poll failed after the sample of
\* device 0 was recorded, and the series are still those of devices 0, 1.
C12_Witness ==
  /\ variant = "windows" /\ pc = "compose" /\ polls = 1
  /\ gpu_count = 2 /\ failed = {-1}
  /\ gpu_history[0][history_size] # 0
  /\ DOMAIN gpu_history = {0, 1}

\* C13 as stated: in every composed frame the device panels are in
\* ascending order of device index (no panel comes before the panel of
\* a device with a smaller index).
C13_PanelsAscending ==
  frame.kind \in {"layout", "widgets"} =>
    \A j, k \in DOMAIN frame.gpus :
      j < k => frame.gpus[j].index <= frame.gpus[k].index

\* The tier a colour stands for.
TierOf(color) ==
  CASE color = "red" -> "critical"
    [] color = "yellow" -> "warning"
    [] color = "green" -> "nominal"
    [] OTHER -> "none"

\* A value shown in colour c is classified with the pair (lo, hi).
Classified(v, c, lo, hi) ==
  /\ TierOf(c) \in {"critical", "warning", "nominal"}
  /\ TierOf(c) = "critical" <=> v > hi
  /\ TierOf(c) = "warning" <=> (lo < v /\ v <= hi)
  /\ TierOf(c) = "nominal" <=> v <= lo

C15_BarMonotonic ==
  [][ (arg.fn = "bar" /\ arg'.fn = "bar" /\ arg.value < arg'.value) =>
        ret.filled <= ret'.filled
    ]_vars

\* C15 witness: a 40-cell bar drawn for the value 99 has 39 filled cells
\* and one empty cell.
C15_Witness ==
  /\ arg.fn = "bar" /\ arg.who = "windows" /\ arg.value = 99
  /\ ret.filled = 39 /\ ret.empty = 1

\* The series whose sparkline was drawn holds only zeros.
AllZero == arg.fn = "sparkline" /\ Range(arg.values) = {0}

C18_ProcessRows ==
  arg.fn = "proctable" =>
    IF arg.supplied = << >> THEN ret.rows = << PlaceholderRow >>
    ELSE /\ Len(ret.rows) = Len(arg.supplied)
         /\ \A k \in DOMAIN ret.rows :
              /\ ~ret.rows[k].placeholder
              /\ ret.rows[k].pid = arg.supplied[k].pid

\* C19: best-effort fields fall back to zero per field: when the core calls
\* of a poll succeed, the poll yields a snapshot in which each of power
\* draw, power limit, graphics clock, memory clock and fan speed is the
\* backend's value when its own call succeeded and 0 when its own call
\* raised.
SnapshotField ==
  [power |-> "power", limit |-> "power_limit", gclk |-> "gpu_clock",
   mclk |-> "mem_clock", fan |-> "fan_speed"]

C19_PerFieldFallback ==
  (arg.fn = "poll" /\ arg.x.core /\ arg.x.r.total # 0) =>
     /\ ret.info.ok
     /\ \A g \in BestEffortCalls :
          ret.info[SnapshotField[g]] = IF arg.x[g] THEN arg.x.r[g] ELSE 0

\* C20: in the CLI backend a sentinel, "[N/A]" or "[Unknown Error]", in
\* any numeric field of a device line is read as 0 (for the power limit:
\* as 0 or as the maximum limit that stands in for it), and the line still
\* yields a snapshot in which every other field has the value printed.
SnapshotKey ==
  [util |-> "gpu_util", mem_util |-> "mem_util", used |-> "mem_used",
   total |-> "mem_total", temp |-> "temp", power |-> "power",
   limit |-> "power_limit", gclk |-> "gpu_clock", mclk |-> "mem_clock",
   fan |-> "fan_speed"]

C20_SentinelsToZero ==
  (arg.fn = "parse" /\ arg.field # "none") =>
     /\ Len(ret.gpus) = 1
     /\ \A p \in DOMAIN SnapshotKey :
          LET got == ret.gpus[1][SnapshotKey[p]] IN
          IF p # arg.field THEN got = arg.r[p]
          ELSE got = 0 \/ (p = "limit" /\ got = arg.r["max_limit"])

\* The lines of an output with at least the 13 requested parts.
WellFormed(lines) ==
  LET Test(line) == line.nf >= QueryFields IN SelectSeq(lines, Test)

\* A zero-filled series after the samples of s were appended in order.
RECURSIVE AppendAll(_, _)
AppendAll(d, s) ==
  IF s = << >> THEN d
  ELSE AppendAll(DequeAppend(d, Head(s), history_size), Tail(s))

\* The value of one metric in the well-formed lines for device i, in order.
SamplesOf(lines, i, metric) ==
  LET Test(line) == line.index = i
      mine == SelectSeq(WellFormed(lines), Test)
  IN [k \in 1..Len(mine) |-> WinInfo(mine[k])[metric]]

\* A CLI poll whose output holds a line with fewer than 13 parts, every
\* other line naming a discovered device.
ShortLinePoll ==
  /\ arg.fn = "winpoll"
  /\ arg.out.run /\ arg.out.rc = 0
  /\ \E k \in DOMAIN arg.out.lines : arg.out.lines[k].nf < QueryFields
  /\ \A k \in DOMAIN arg.out.lines : arg.out.lines[k].index < arg.n

C22_CallsBounded == pc # "blocked"

\* The values a poll may record in a series.
Recorded ==
  [gpu_util |-> { r.util : r \in Readings },
   mem_percent |-> { (r.used * 100) \div r.total : r \in Readings },
   temp |-> { r.temp : r \in Readings }]

\* Series i of h receives exactly k samples of V in this step.
Received(h, i, k, V) ==
  \E vs \in [1..k -> V] : h'[i] = AppendAll(h[i], vs)

\* This step holds a successful poll of device i by a native-binding
\* program: the loop body of generate_layout built the device panel of
\* i, or the callback of card i ran and left no error on the card.
NativePollOk(i) ==
  \/ /\ variant = "lite" /\ pc = "poll" /\ dev = i
     /\ Len(gpu_panels') = Len(gpu_panels) + 1
     /\ gpu_panels'[Len(gpu_panels')].kind = "gpu"
  \/ /\ variant = "textual" /\ pc = "app" /\ handles[i]
     /\ next_fire'[i] # next_fire[i] \/ refreshes' # refreshes
     /\ i \notin shown_failed'

\* C23: in every step each device receives the same number of samples in
\* its utilization, memory and temperature series; a successful poll of
\* device i by a native-binding program is exactly one sample in each of
\* the three series of i, the loop body for device i leaves the series of
\* every other device as they were, and the CLI program records one
\* sample per series for each device line it parses (at most gpu_count
\* lines in one poll).
C23_OneSamplePerSeries ==
  [][ \A i \in DOMAIN gpu_history \cap DOMAIN gpu_history' :
        \E k \in 0..gpu_count :
          /\ Received(gpu_history, i, k, Recorded.gpu_util)
          /\ Received(mem_history, i, k, Recorded.mem_percent)
          /\ Received(temp_history, i, k, Recorded.temp)
          /\ variant # "windows" => k <= 1
          /\ NativePollOk(i) => k = 1
          /\ (variant = "lite" /\ pc = "poll" /\ i # dev) => k = 0
          /\ pc \notin {"poll", "app"} => k = 0
    ]_vars

\* C23 witness: with two devices, device 0 has been polled once and device
\* 1 not yet: the three series of device 0 hold one sample each, those of
\* device 1 none.
C23_Witness ==
  /\ variant = "lite" /\ pc = "poll" /\ dev = 1 /\ gpu_count = 2
  /\ polls = 1
  /\ gpu_history[0] = Append(Tail(ZeroDeque(history_size)), 95)
  /\ mem_history[0] = Append(Tail(ZeroDeque(history_size)), 90)
  /\ temp_history[0] = Append(Tail(ZeroDeque(history_size)), 85)
  /\ gpu_history[1] = ZeroDeque(history_size)
  /\ mem_history[1] = ZeroDeque(history_size)
  /\ temp_history[1] = ZeroDeque(history_size)

\* C24: a stop signal is never lost: once an interrupt (or quit) has been
\* delivered the program is draining or stopped, it is never again in a
\* Running step of the loop.
C24_SignalNeverLost ==
  signalled => Phase \in {"Draining", "Stopped"}

\* C25: a poll reported as failed leaves every history series as it was:
\* a step of the rich loops that marks the poll (of device dev, or the
\* whole CLI poll) as failed changes no series, and a Textual callback
\* changes no series of a card it leaves showing the error panel.
C25_FailedPollNoAppend ==
  [][ /\ (variant = "lite" /\ pc = "poll" /\ dev \in failed') =>
           UNCHANGED hist
      /\ (variant = "windows" /\ pc = "poll" /\ failed' = {-1}) =>
           UNCHANGED hist
      /\ variant = "textual" =>
           \A i \in DOMAIN gpu_history \cap DOMAIN gpu_history' :
             (i \in shown_failed' /\ polls' > polls) => ~Touched(i)
    ]_vars

\* The number of cells of the bars of a program.
WidthOf(who) == IF who = "textual" THEN CardBarWidth ELSE BarWidth

\* A bar of exactly width cells.
FullWidth(bar, width) ==
  /\ 0 <= bar.filled /\ bar.filled <= width
  /\ bar.filled + bar.empty = width

\* C26: every rendered bar has exactly width cells, filled + empty =
\* width with 0 <= filled <= width: the utilization and memory bars, and
\* the power bar whatever the power draw and the power limit are.
C26_BarWidthExact ==
  /\ arg.fn = "bar" => FullWidth(ret, WidthOf(arg.who))
  /\ (arg.fn = "powerrow" /\ ret.drawn) => FullWidth(ret.bar, WidthOf(arg.who))

\* C27: in the native-binding loop every composed frame has exactly
\* gpu_count device panels, panel i being the panel of device i and an
\* error panel exactly when the poll of device i failed in that cycle; and
\* one pass of the loop body adds the panel of device dev only, keeps the
\* panels already built, leaves the series of every other device as they
\* were, and records one sample per series of dev when its poll succeeds
\* (whether or not an earlier device failed) and none when it fails.
C27_DevicesIsolated ==
  [][ variant = "lite" =>
        /\ frame'.kind = "layout" =>
             /\ Len(frame'.gpus) = gpu_count'
             /\ \A i \in Devices(gpu_count') :
                  /\ frame'.gpus[i + 1].index = i
                  /\ frame'.gpus[i + 1].kind = "error" <=> i \in shown_failed'
        /\ (pc = "poll" /\ pc' \in {"poll", "procs"}) =>
             /\ Len(gpu_panels') = dev + 1
             /\ SubSeq(gpu_panels', 1, dev) = gpu_panels
             /\ gpu_panels'[dev + 1].index = dev
             /\ pc' = "procs" <=> dev + 1 = gpu_count
             /\ \A j \in Devices(gpu_count) \ {dev} :
                  /\ ~Touched(j)
                  /\ j \in failed' <=> j \in failed
             /\ IF dev \in failed'
                THEN /\ gpu_panels'[dev + 1].kind = "error"
                     /\ ~Touched(dev)
                ELSE /\ gpu_panels'[dev + 1].kind = "gpu"
                     /\ Received(gpu_history, dev, 1, Recorded.gpu_util)
                     /\ Received(mem_history, dev, 1, Recorded.mem_percent)
                     /\ Received(temp_history, dev, 1, Recorded.temp)
    ]_vars

\* C27 witness: a frame of two devices in which the poll of device 0
\* failed and device 1 has its panel and its sample.
C27_Witness ==
  /\ variant = "lite" /\ frame.kind = "layout" /\ gpu_count = 2
  /\ cycles = 1
  /\ shown_failed = {0}
  /\ frame.gpus[1].kind = "error" /\ frame.gpus[2].kind = "gpu"
  /\ gpu_history[0] = ZeroDeque(history_size)
  /\ gpu_history[1][history_size] = 95

\* The first n samples appended to the series of one metric.
FirstAppended(n, metric) == [k \in 1..n |-> appended[k][metric]]

C29_ZeroTotalsHarmless ==
  (arg.fn = "panel" /\ (arg.r.total = 0 \/ arg.r.limit = 0)) =>
     /\ ret.info.ok
     /\ ret.panel.kind = "gpu"
     /\ arg.r.total = 0 => ret.info.mem_percent = 0
     /\ arg.r.limit = 0 => (~ret.power.drawn \/ ret.power.bar.filled = 0)

====
